---- MODULE Spec2Model ----
(***************************************************************************)
(* TaskMaster: the task store of the vanilla-JS application                *)
(* (session-2-vanilla-js/app.js) and of the React application              *)
(* (context/TaskContext: taskReducer and TaskProvider).                    *)
(*                                                                         *)
(* One behaviour follows one of the two applications (variable app); both  *)
(* keep a task sequence in memory and a JSON array in one storage slot.    *)
(*                                                                         *)
(* Encoding of JavaScript values:                                          *)
(*   text fields (title, description, priority, status) are strings, and   *)
(*     "absent" is a key missing from the object (reads as undefined);     *)
(*   number and date fields (id, dueDate, createdAt, completedAt,          *)
(*     updatedAt) are integers: a positive integer is a value (dates and   *)
(*     timestamps as YYYYMMDD), 0 a missing key, -1 null, -2 the empty     *)
(*     string "";                                                          *)
(*   Date.now() and new Date() read the variable now, which only moves     *)
(*     forward.                                                            *)
(***************************************************************************)
EXTENDS Integers, Sequences, FiniteSets, TLC

Absent == "absent"
AbsentNum == 0
NullNum == -1
EmptyNum == -2

\* ---------------------------------------------------------------- bounds
MaxOps == 2         \* user operations followed in one behaviour
MaxEvents == 1      \* clock advances, throwing storage calls, fetch responses
MaxTasks == 5       \* records in the store
MaxRand == 1        \* largest random offset of an id
MaxDueOffset == 1   \* largest random due-date offset of a fetched record
MaxKeys == 3        \* input events of the search box in one behaviour

\* first clock reading of a session (any instant after the sample dates)
NowBase == 20250101

Apps == {"vanilla", "react"}

VARIABLES
    app,        \* which application this behaviour runs
    phase,      \* "boot" (constructed, not initialised), "running", "dead"
    tasks,      \* AppState.tasks / state.tasks
    store,      \* the storage slot: NoItem or the JSON text of an array
    filters,    \* AppState.filters / state.filters
    sortBy,     \* AppState.sortBy / state.sortBy
    now,        \* the clock (Date.now(), new Date())
    failures,   \* storage calls that have thrown so far
    responses,  \* fetch() promises that have settled so far
    ops,        \* user operations performed so far
    call,       \* the operation that ran last, with its arguments
    uncaught,   \* the exception that escaped a handler ("none": none did)
    fetchPc,    \* position of fetchTasksFromAPI
    errorState, \* message shown by showError ("none": hidden)
    isModalOpen,            \* the task form is on display
    currentEditingTaskId,   \* AppState.currentEditingTaskId (0: null)
    taskToEdit,             \* Dashboard state taskToEdit (null: none)
    submitting,             \* the handleSubmit call waiting for its delay
    deleteConfirm,          \* Dashboard state deleteConfirm (0: null)
    searchBox,              \* the text in the search box
    searchTimeout,          \* the timer handle handleSearch keeps (0: none)
    timers                  \* the timers that are set: handle, time left

\* the state of the forms, dialogs and timers of the page
ui == <<isModalOpen, currentEditingTaskId, taskToEdit, submitting,
        deleteConfirm, searchBox, searchTimeout, timers>>

vars == <<app, phase, tasks, store, filters, sortBy, now, failures,
          responses, ops, call, uncaught, fetchPc, errorState, ui>>

\* ------------------------------------------------------------ task records
\* what the environment has done so far: the clock has advanced now - NowBase
\* times, failures storage calls have thrown, responses requests have been
\* answered
events == failures + responses + (now - NowBase)

\* one more storage call may throw
MayFail == events < MaxEvents

TextFields == {"title", "description", "priority", "status"}
NumFields == {"id", "dueDate", "createdAt", "completedAt", "updatedAt"}
Fields == TextFields \cup NumFields

\* the value a missing key reads as
Undef(f) == IF f \in NumFields THEN AbsentNum ELSE Absent

\* an object literal: the listed keys, every other key missing
Obj(r) == [f \in Fields |-> IF f \in DOMAIN r THEN r[f] ELSE Undef(f)]

\* { ...a, ...b }: keys of b win over keys of a
Spread(a, b) == [f \in Fields |-> IF b[f] # Undef(f) THEN b[f] ELSE a[f]]

\* JavaScript truthiness of a number/date field (undefined, null, "": falsy)
Truthy(v) == v > 0

getSampleTasks ==
    << Obj([id |-> 1, title |-> "Fix authentication bug in login flow",
            description |-> "Users are experiencing issues logging in",
            priority |-> "high", status |-> "pending",
            dueDate |-> 20241225, createdAt |-> 20241220]),
       Obj([id |-> 2, title |-> "Update API documentation",
            description |-> "Add examples for the new endpoints",
            priority |-> "medium", status |-> "pending",
            dueDate |-> 20241228, createdAt |-> 20241221]),
       Obj([id |-> 3, title |-> "Refactor user service tests",
            description |-> "Clean up test code and add missing edge cases",
            priority |-> "low", status |-> "pending",
            dueDate |-> 20250105, createdAt |-> 20241222]),
       Obj([id |-> 4, title |-> "Implement user profile page",
            description |-> "Create responsive profile page",
            priority |-> "high", status |-> "completed",
            dueDate |-> 20241220, completedAt |-> 20241220,
            createdAt |-> 20241215]) >>

initialFilters == [status |-> "all", priority |-> "all", searchTerm |-> ""]

\* null where a task record is expected
null == Obj(<<>>)

\* no handleSubmit call is waiting
NoSubmit == [taskToEdit |-> null, formData |-> null]

\* the page as it is first rendered: no form, no dialog, an empty search
\* box, no timer
uiInit ==
    /\ isModalOpen = FALSE
    /\ currentEditingTaskId = 0
    /\ taskToEdit = null
    /\ submitting = NoSubmit
    /\ deleteConfirm = 0
    /\ searchBox = ""
    /\ searchTimeout = 0
    /\ timers = {}

initialState == [tasks |-> << >>, filters |-> initialFilters, sortBy |-> "date"]

\* ------------------------------------------------------------- persistence
\* localStorage.getItem of a key that was never written returns null
NoItem == [present |-> FALSE, json |-> << >>]

\* JSON.stringify of the task array: one object per record, in order; a key
\* whose value is undefined is left out, null is written as null.
JSON_stringify(ts) ==
    [present |-> TRUE,
     json |-> [i \in 1..Len(ts) |->
                 [f \in {g \in Fields : ts[i][g] # Undef(g)} |-> ts[i][f]]]]

\* JSON.parse of a stored text: keys that were left out read as undefined.
JSON_parse(text) ==
    [i \in 1..Len(text.json) |->
       [f \in Fields |-> IF f \in DOMAIN text.json[i]
                         THEN text.json[i][f] ELSE Undef(f)]]

\* what the slot holds when the page is opened: nothing (first run), or
\* what an earlier session saved last (here: after it deleted the second
\* and third sample task)
PriorStores ==
    {NoItem, JSON_stringify(<<getSampleTasks[1], getSampleTasks[4]>>)}

\* localStorage.setItem(key, JSON.stringify(ts)); ok = FALSE: the call throws
saveTasks(ts, ok) == IF ok THEN JSON_stringify(ts) ELSE store

\* the invocation op(id, data), rnd being the random number it drew
Call(op, id, data, rnd) == [op |-> op, id |-> id, data |-> data, rnd |-> rnd]

\* ------------------------------------------------------------------ inputs
\* ids a caller may pass: those on display and one that no record carries
MissingId == 99
IdsOf(ts) == {ts[i].id : i \in 1..Len(ts)}
IdInputs ==
    {MissingId} \cup (IF tasks = << >> THEN {}
                      ELSE {tasks[1].id, tasks[Len(tasks)].id})

\* drafts handed to createTask / addTask at clock reading t
Drafts(t) ==
    { Obj([title |-> "Task 1", description |-> "", priority |-> "low"]),
      Obj([title |-> "Test Task", description |-> "Test Description",
           priority |-> "high", dueDate |-> EmptyNum,
           status |-> "pending", createdAt |-> t]),
      \* a copy of a completed record
      Obj([title |-> "Done Task", description |-> "", priority |-> "medium",
           status |-> "completed", completedAt |-> 20241220]) }

\* patches handed to updateTask at clock reading t
Patches(t) ==
    { Obj([title |-> "Updated Title", priority |-> "high"]),
      Obj([status |-> "completed"]),
      Obj([id |-> 1, createdAt |-> t]) }

\* ------------------------------------------------- vanilla: CRUD operations
Min(S) == CHOOSE x \in S : \A y \in S : x <= y

\* Array.findIndex / Array.find on the id; 0 stands for -1 / undefined
FindIndex(ts, taskId) ==
    LET hits == {i \in 1..Len(ts) : ts[i].id = taskId}
    IN  IF hits = {} THEN 0 ELSE Min(hits)

\* the object literal of createTask
newTask(taskData, t) ==
    Spread(Spread(Obj([id |-> t]), taskData),
           Obj([status |-> "pending", createdAt |-> t]))

\* AppState.tasks after updateTask's assignment
updateTaskResult(ts, taskId, updates) ==
    LET index == FindIndex(ts, taskId)
    IN  IF index = 0 THEN ts
        ELSE [ts EXCEPT ![index] = Spread(ts[index], updates)]

\* togglePatch without the completedAt: null of the reopening branch
togglePatch_KeepsCompletedAt(task, t) ==
    IF task.status = "completed"
    THEN Obj([status |-> "pending"])
    ELSE Obj([status |-> "completed", completedAt |-> t])

\* the patch toggleTaskCompletion passes to updateTask
togglePatch(task, t) ==
    IF task.status = "completed"
    THEN Obj([status |-> "pending", completedAt |-> NullNum])
    ELSE Obj([status |-> "completed", completedAt |-> t])

withoutId(ts, taskId) == SelectSeq(ts, LAMBDA task : task.id # taskId)
\* withoutCompleted telling a completed record by its completedAt
withoutCompleted_ByCompletedAt(ts) ==
    SelectSeq(ts, LAMBDA task : task.completedAt <= 0)

withoutCompleted(ts) == SelectSeq(ts, LAMBDA task : task.status # "completed")

\* a handler of the vanilla page running saveTasks() after it has set
\* AppState.tasks to ts: a throwing setItem leaves the handler as an
\* uncaught exception, the page stays alive
SaveAfter(ts, ok) ==
    /\ ok \/ MayFail
    /\ tasks' = ts
    /\ store' = saveTasks(ts, ok)
    /\ failures' = IF ok THEN failures ELSE failures + 1
    /\ uncaught' = IF ok THEN uncaught ELSE "storage"

NoSave(ts) ==
    /\ tasks' = ts
    /\ UNCHANGED <<store, failures, uncaught>>

Vanilla == app = "vanilla" /\ phase = "running"

\* one more user operation
UserOp(op, id, data, rnd) ==
    /\ ops < MaxOps
    /\ ops' = ops + 1
    /\ call' = Call(op, id, data, rnd)

\* render() at the end of a UI handler hides the error panel; a handler
\* left by an exception does not reach its render()
Rendered(threw) ==
    errorState' = IF threw THEN errorState ELSE "none"

createTask(taskData, ok) ==
    /\ Vanilla
    /\ UserOp("createTask", 0, taskData, 0)
    /\ Len(tasks) < MaxTasks
    /\ SaveAfter(Append(tasks, newTask(taskData, now)), ok)
    /\ Rendered(~ok)
    /\ UNCHANGED <<ui, responses, app, phase, filters, sortBy, now, fetchPc>>

updateTask(taskId, updates, ok) ==
    /\ Vanilla
    /\ UserOp("updateTask", taskId, updates, 0)
    /\ IF FindIndex(tasks, taskId) = 0
       THEN ok /\ NoSave(tasks)
       ELSE SaveAfter(updateTaskResult(tasks, taskId, updates), ok)
    /\ Rendered(~ok)
    /\ UNCHANGED <<ui, responses, app, phase, filters, sortBy, now, fetchPc>>

deleteTask(taskId, ok) ==
    /\ Vanilla
    /\ UserOp("deleteTask", taskId, Obj(<<>>), 0)
    /\ IF Len(withoutId(tasks, taskId)) # Len(tasks)
       THEN SaveAfter(withoutId(tasks, taskId), ok)
       ELSE ok /\ NoSave(withoutId(tasks, taskId))
    /\ Rendered(~ok)
    /\ UNCHANGED <<ui, responses, app, phase, filters, sortBy, now, fetchPc>>

toggleTaskCompletion(taskId, ok) ==
    /\ Vanilla
    /\ UserOp("toggleTaskCompletion", taskId, Obj(<<>>), 0)
    /\ LET index == FindIndex(tasks, taskId)
       IN  IF index = 0
           THEN ok /\ NoSave(tasks)
           ELSE SaveAfter(updateTaskResult(tasks, taskId,
                                           togglePatch(tasks[index], now)), ok)
    /\ Rendered(~ok)
    /\ UNCHANGED <<ui, responses, app, phase, filters, sortBy, now, fetchPc>>

clearCompletedTasks(ok) ==
    /\ Vanilla
    /\ UserOp("clearCompletedTasks", 0, Obj(<<>>), 0)
    /\ SaveAfter(withoutCompleted(tasks), ok)
    /\ Rendered(~ok)
    /\ UNCHANGED <<ui, responses, app, phase, filters, sortBy, now, fetchPc>>

\* loadTasks().  readOk = FALSE: getItem throws; ok = FALSE: the first-run
\* saveTasks() throws.  afterThrow is the phase the page is left in when the
\* exception leaves the caller.
loadTasksBody(readOk, ok, afterThrow) ==
    /\ (readOk /\ ok) \/ MayFail
    /\ IF ~readOk
       THEN /\ ok
            /\ phase' = afterThrow
            /\ failures' = failures + 1
            /\ uncaught' = "storage"
            /\ UNCHANGED <<tasks, store>>
       ELSE IF store.present
       THEN /\ ok
            /\ tasks' = JSON_parse(store)
            /\ phase' = "running"
            /\ UNCHANGED <<store, failures, uncaught>>
       ELSE /\ tasks' = getSampleTasks
            /\ store' = saveTasks(getSampleTasks, ok)
            /\ phase' = IF ok THEN "running" ELSE afterThrow
            /\ failures' = IF ok THEN failures ELSE failures + 1
            /\ uncaught' = IF ok THEN uncaught ELSE "storage"

\* init(): loadTasks(), render(), then the listeners; an exception in
\* loadTasks() leaves init() before any listener is attached
init(readOk, ok) ==
    /\ app = "vanilla" /\ phase = "boot"
    /\ loadTasksBody(readOk, ok, "dead")
    /\ UNCHANGED <<ui, responses, ops, call, app, filters, sortBy, now, fetchPc, errorState>>

\* the retry button of the error panel: loadTasks(); render()
retry(readOk, ok) ==
    /\ Vanilla
    /\ UserOp("retry", 0, Obj(<<>>), 0)
    /\ errorState # "none"
    /\ loadTasksBody(readOk, ok, "running")
    /\ Rendered(~(readOk /\ ok))
    /\ UNCHANGED <<ui, responses, app, filters, sortBy, now, fetchPc>>

\* ------------------------------------------- vanilla: fetchTasksFromAPI
\* responses of the remote endpoint: arrays of {id, title, completed}
Todos ==
    { << [id |-> 1, title |-> "delectus aut autem", completed |-> FALSE],
         [id |-> 2, title |-> "quis ut nam facilis", completed |-> TRUE] >>,
      \* an element without the todo fields: todo.id and todo.title are
      \* undefined, todo.completed is falsy, nothing throws
      << [id |-> AbsentNum, title |-> Absent, completed |-> FALSE] >> }

\* todos.map(todo => ({...})) at clock reading t; due is the random due date
transformTodo(todo, t, due) ==
    Obj([id |-> todo.id, title |-> todo.title,
         description |-> "Fetched from API", priority |-> "medium",
         status |-> IF todo.completed THEN "completed" ELSE "pending",
         dueDate |-> due, createdAt |-> t,
         completedAt |-> IF todo.completed THEN t ELSE NullNum])

transformedTasks(todos, t, due) ==
    [i \in 1..Len(todos) |-> transformTodo(todos[i], t, due)]

\* the text showError() is given by the catch block, less error.message
FetchFailed == "Failed to fetch tasks"

\* the call, up to the first await: showLoading(), fetch(...)
fetchTasksFromAPI ==
    /\ Vanilla
    /\ UserOp("fetchTasksFromAPI", 0, Obj(<<>>), 0)
    /\ fetchPc = "idle"
    /\ fetchPc' = "awaitFetch"
    /\ UNCHANGED <<ui, responses, app, phase, tasks, store, filters, sortBy, now, failures,
                   uncaught, errorState>>

\* fetch() settles: rejected ("network"), a response that is not ok
\* ("http"), both caught and shown, or an ok response, whose body is then
\* read
fetchSettles(outcome) ==
    /\ Vanilla
    /\ fetchPc = "awaitFetch"
    /\ events < MaxEvents
    /\ responses' = responses + 1
    /\ IF outcome = "ok"
       THEN /\ fetchPc' = "awaitJson"
            /\ UNCHANGED errorState
       ELSE /\ fetchPc' = "idle"
            /\ errorState' = FetchFailed
    /\ UNCHANGED <<ui, ops, call, app, phase, tasks, store, filters, sortBy, now, failures,
                   uncaught>>

\* jsonFails with each record pushed onto AppState.tasks as it is
\* transformed, so that the first one is merged before the failure
jsonFails_PartialMerge(cause) ==
    /\ Vanilla
    /\ fetchPc = "awaitJson"
    /\ cause \in {"not-json", "not-array"}
    /\ fetchPc' = "idle"
    /\ errorState' = FetchFailed
    /\ tasks' = Append(tasks,
                       transformTodo([id |-> 1, title |-> "delectus aut autem",
                                      completed |-> FALSE], now, now))
    /\ UNCHANGED <<ui, responses, ops, call, app, phase, store, filters, sortBy, now,
                   failures, uncaught>>

\* response.json() rejects (the body is not JSON) or todos.map throws (the
\* body is not an array, or holds null): the catch block shows the error
jsonFails(cause) ==
    /\ Vanilla
    /\ fetchPc = "awaitJson"
    /\ cause \in {"not-json", "not-array"}
    /\ fetchPc' = "idle"
    /\ errorState' = FetchFailed
    /\ UNCHANGED <<ui, responses, ops, call, app, phase, tasks, store, filters, sortBy, now, failures,
                   uncaught>>

\* jsonResolves with the fetched records replacing AppState.tasks
jsonResolves_ReplacesTasks(todos, dueOffset, ok) ==
    /\ Vanilla
    /\ fetchPc = "awaitJson"
    /\ Len(tasks) + Len(todos) <= MaxTasks
    /\ ok \/ MayFail
    /\ tasks' = transformedTasks(todos, now, now + dueOffset)
    /\ store' = saveTasks(tasks', ok)
    /\ failures' = IF ok THEN failures ELSE failures + 1
    /\ fetchPc' = "idle"
    /\ errorState' = IF ok THEN "none" ELSE FetchFailed
    /\ UNCHANGED <<ui, responses, ops, call, app, phase, filters, sortBy, now, uncaught>>

\* response.json() resolves with an array of todos: transform, merge, save,
\* render.  A throwing saveTasks() is caught by the same catch block.
jsonResolves(todos, dueOffset, ok) ==
    /\ Vanilla
    /\ fetchPc = "awaitJson"
    /\ Len(tasks) + Len(todos) <= MaxTasks
    /\ ok \/ MayFail
    /\ tasks' = tasks \o transformedTasks(todos, now, now + dueOffset)
    /\ store' = saveTasks(tasks', ok)
    /\ failures' = IF ok THEN failures ELSE failures + 1
    /\ fetchPc' = "idle"
    /\ errorState' = IF ok THEN "none" ELSE FetchFailed
    /\ UNCHANGED <<ui, responses, ops, call, app, phase, filters, sortBy, now, uncaught>>

\* ------------------------------------------------------ React: taskReducer
\* Date.now() is t, Math.floor(Math.random() * 1000) is rnd
taskReducer(state, action, t, rnd) ==
    CASE action.type = "SET_TASKS" ->
           [state EXCEPT !.tasks = action.payload]
      [] action.type = "ADD_TASK" ->
           [state EXCEPT !.tasks =
              Append(state.tasks,
                     Spread(action.payload,
                            Obj([id |-> t + rnd, status |-> "pending"])))]
      [] action.type = "UPDATE_TASK" ->
           [state EXCEPT !.tasks =
              [i \in 1..Len(state.tasks) |->
                 IF state.tasks[i].id = action.payload.id
                 THEN Spread(state.tasks[i], action.payload.updates)
                 ELSE state.tasks[i]]]
      [] action.type = "DELETE_TASK" ->
           [state EXCEPT !.tasks = withoutId(state.tasks, action.payload)]
      [] action.type = "TOGGLE_TASK" ->
           [state EXCEPT !.tasks =
              [i \in 1..Len(state.tasks) |->
                 IF state.tasks[i].id = action.payload
                 THEN Spread(state.tasks[i],
                        Obj([status |-> IF state.tasks[i].status = "completed"
                                        THEN "pending" ELSE "completed",
                             completedAt |->
                                 IF state.tasks[i].status = "completed"
                                 THEN NullNum ELSE t]))
                 ELSE state.tasks[i]]]
      [] action.type = "SET_FILTER" ->
           [state EXCEPT !.filters[action.payload.filterType] =
                             action.payload.value]
      [] action.type = "SET_SORT" ->
           [state EXCEPT !.sortBy = action.payload]
      [] action.type = "CLEAR_COMPLETED" ->
           [state EXCEPT !.tasks = withoutCompleted(state.tasks)]
      [] OTHER -> state

\* ACTION_TYPES
ActionTypes == {"SET_TASKS", "ADD_TASK", "UPDATE_TASK", "DELETE_TASK",
                "TOGGLE_TASK", "SET_FILTER", "SET_SORT", "CLEAR_COMPLETED"}

\* action objects that carry no payload: one of each recognized type and
\* one of a type the reducer does not know
BareActions == {[type |-> ty] : ty \in ActionTypes \cup {"UNKNOWN"}}

\* taskReducer(state, action) raises a TypeError: the case reads a property
\* of action.payload, which is undefined.  UPDATE_TASK reads
\* action.payload.id inside the map callback, that is once there is a
\* record; SET_FILTER reads action.payload.filterType in the object
\* literal.  ({...undefined} and a comparison with undefined do not throw.)
taskReducerThrows(state, action) ==
    /\ "payload" \notin DOMAIN action
    /\ \/ action.type = "UPDATE_TASK" /\ state.tasks # << >>
       \/ action.type = "SET_FILTER"

\* the cases of the reducer that build a new tasks array
TaskActionTypes == {"SET_TASKS", "ADD_TASK", "UPDATE_TASK", "DELETE_TASK",
                    "TOGGLE_TASK", "CLEAR_COMPLETED"}

\* the save effect of TaskProvider, run after a render whose state.tasks is
\* a new array ts: nothing is written for an empty array
saveEffect_OnlyOverExisting(ts, ok) ==
    IF Len(ts) > 0 /\ store.present THEN saveTasks(ts, ok) ELSE store

saveEffect(ts, ok) == IF Len(ts) > 0 THEN saveTasks(ts, ok) ELSE store

\* dispatch(action): the reducer runs, the provider renders the new state,
\* then the save effect runs.  An exception thrown by an effect is not
\* caught by any error boundary (App.jsx has none): React unmounts the whole
\* tree and the reducer's state goes with it (a later mount starts from
\* initialState again).
dispatchThen(action, id, data, rnd, ok) ==
    /\ app = "react" /\ phase = "running"
    /\ UserOp(action.type, id, data, rnd)
    /\ LET next == taskReducer([tasks |-> tasks, filters |-> filters,
                                sortBy |-> sortBy], action, now, rnd)
           writes == action.type \in TaskActionTypes /\ Len(next.tasks) > 0
           after == IF ok THEN next ELSE initialState
       IN  /\ ok \/ (writes /\ MayFail)
           /\ tasks' = after.tasks
           /\ filters' = after.filters
           /\ sortBy' = after.sortBy
           /\ store' = IF action.type \in TaskActionTypes
                       THEN saveEffect(next.tasks, ok) ELSE store
           /\ phase' = IF ok THEN phase ELSE "dead"
           /\ failures' = IF ok THEN failures ELSE failures + 1
           /\ uncaught' = IF ok THEN uncaught ELSE "storage"
    /\ UNCHANGED <<responses, app, now, fetchPc, errorState>>

\* a dispatch by a caller that changes no form or dialog
dispatch(action, id, data, rnd, ok) ==
    /\ dispatchThen(action, id, data, rnd, ok)
    /\ UNCHANGED ui

addTask(task, rnd, ok) ==
    /\ Len(tasks) < MaxTasks
    /\ dispatch([type |-> "ADD_TASK", payload |-> task], 0, task, rnd, ok)

updateTaskR(id, updates, ok) ==
    dispatch([type |-> "UPDATE_TASK",
              payload |-> [id |-> id, updates |-> updates]],
             id, updates, 0, ok)

deleteTaskR(id, ok) ==
    dispatch([type |-> "DELETE_TASK", payload |-> id], id, Obj(<<>>), 0, ok)

toggleTask(id, ok) ==
    dispatch([type |-> "TOGGLE_TASK", payload |-> id], id, Obj(<<>>), 0, ok)

clearCompleted(ok) ==
    dispatch([type |-> "CLEAR_COMPLETED"], 0, Obj(<<>>), 0, ok)

\* TaskProvider mounts with initialState: the load effect reads the slot
\* and dispatches SET_TASKS, the save effect sees the empty array and
\* writes nothing; after the re-render the save effect runs on the loaded
\* array.  readOk = FALSE: getItem throws inside the load effect; ok = FALSE:
\* setItem throws inside the save effect.  Either way the tree is unmounted.
TaskProvider(readOk, ok) ==
    /\ app = "react" /\ phase = "boot"
    /\ (readOk /\ ok) \/ MayFail
    /\ IF ~readOk
       THEN /\ ok
            /\ phase' = "dead"
            /\ failures' = failures + 1
            /\ uncaught' = "storage"
            /\ UNCHANGED <<tasks, store>>
       ELSE LET loaded == IF store.present THEN JSON_parse(store)
                          ELSE getSampleTasks
            IN  /\ ok \/ Len(loaded) > 0
                /\ tasks' = IF ok THEN loaded ELSE initialState.tasks
                /\ store' = saveEffect(loaded, ok)
                /\ phase' = IF ok THEN "running" ELSE "dead"
                /\ failures' = IF ok THEN failures ELSE failures + 1
                /\ uncaught' = IF ok THEN uncaught ELSE "storage"
    /\ UNCHANGED <<ui, responses, ops, call, app, filters, sortBy, now, fetchPc, errorState>>

\* ------------------------------------------------------------ strings
\* The characters of a string, for the strings that occur as title,
\* description or search text.
chars(s) ==
    CASE s = "" ->
         << >>
      [] s = "Add examples for the new endpoints" ->
         <<"A","d","d"," ","e","x","a","m","p","l","e","s"," ","f",
           "o","r"," ","t","h","e"," ","n","e","w"," ","e",
           "n","d","p","o","i","n","t","s">>
      [] s = "Clean up test code and add missing edge cases" ->
         <<"C","l","e","a","n"," ","u","p"," ","t","e","s","t"," ",
           "c","o","d","e"," ","a","n","d"," ","a","d","d",
           " ","m","i","s","s","i","n","g"," ","e","d","g",
           "e"," ","c","a","s","e","s">>
      [] s = "Create responsive profile page" ->
         <<"C","r","e","a","t","e"," ","r","e","s","p","o","n","s",
           "i","v","e"," ","p","r","o","f","i","l","e"," ",
           "p","a","g","e">>
      [] s = "Fetched from API" ->
         <<"F","e","t","c","h","e","d"," ","f","r","o","m"," ","A",
           "P","I">>
      [] s = "Test Description" ->
         <<"T","e","s","t"," ","D","e","s","c","r","i","p","t","i",
           "o","n">>
      [] s = "Users are experiencing issues logging in" ->
         <<"U","s","e","r","s"," ","a","r","e"," ","e","x","p","e",
           "r","i","e","n","c","i","n","g"," ","i","s","s",
           "u","e","s"," ","l","o","g","g","i","n","g"," ",
           "i","n">>
      [] s = "Done Task" ->
         <<"D","o","n","e"," ","T","a","s","k">>
      [] s = "Fix authentication bug in login flow" ->
         <<"F","i","x"," ","a","u","t","h","e","n","t","i","c","a",
           "t","i","o","n"," ","b","u","g"," ","i","n"," ",
           "l","o","g","i","n"," ","f","l","o","w">>
      [] s = "Implement user profile page" ->
         <<"I","m","p","l","e","m","e","n","t"," ","u","s","e","r",
           " ","p","r","o","f","i","l","e"," ","p","a","g",
           "e">>
      [] s = "Refactor user service tests" ->
         <<"R","e","f","a","c","t","o","r"," ","u","s","e","r"," ",
           "s","e","r","v","i","c","e"," ","t","e","s","t",
           "s">>
      [] s = "Task 1" ->
         <<"T","a","s","k"," ","1">>
      [] s = "Test Task" ->
         <<"T","e","s","t"," ","T","a","s","k">>
      [] s = "Update API documentation" ->
         <<"U","p","d","a","t","e"," ","A","P","I"," ","d","o","c",
           "u","m","e","n","t","a","t","i","o","n">>
      [] s = "Updated Title" ->
         <<"U","p","d","a","t","e","d"," ","T","i","t","l","e">>
      [] s = "delectus aut autem" ->
         <<"d","e","l","e","c","t","u","s"," ","a","u","t"," ","a",
           "u","t","e","m">>
      [] s = "quis ut nam facilis" ->
         <<"q","u","i","s"," ","u","t"," ","n","a","m"," ","f","a",
           "c","i","l","i","s">>
      [] s = "Buy milk" ->
         <<"B","u","y"," ","m","i","l","k">>
      [] s = "FIX" ->
         <<"F","I","X">>
      [] s = "EDGE" ->
         <<"E","D","G","E">>
      [] s = " api " ->
         <<" ","a","p","i"," ">>
      [] s = "api" ->
         <<"a","p","i">>
      [] s = "undefined" ->
         <<"u","n","d","e","f","i","n","e","d">>
      [] s = "   " ->
         <<" "," "," ">>
      [] s = "ab" ->
         <<"a","b">>
      [] s = "Too short" ->
         <<"T","o","o"," ","s","h","o","r","t">>

\* the strings chars knows
Texts ==
    { "",
      "Add examples for the new endpoints",
      "Clean up test code and add missing edge cases",
      "Create responsive profile page",
      "Fetched from API",
      "Test Description",
      "Users are experiencing issues logging in",
      "Done Task",
      "Fix authentication bug in login flow",
      "Implement user profile page",
      "Refactor user service tests",
      "Task 1",
      "Test Task",
      "Update API documentation",
      "Updated Title",
      "delectus aut autem",
      "quis ut nam facilis",
      "Buy milk",
      "FIX",
      "EDGE",
      " api ",
      "api",
      "undefined",
      "   ",
      "ab",
      "Too short" }

\* the string made of the characters cs
text(cs) == CHOOSE s \in Texts : chars(s) = cs

UpperCase == <<"A","B","C","D","E","F","G","H","I","J","K","L","M",
               "N","O","P","Q","R","S","T","U","V","W","X","Y","Z">>
LowerCase == <<"a","b","c","d","e","f","g","h","i","j","k","l","m",
               "n","o","p","q","r","s","t","u","v","w","x","y","z">>

\* the small letter of a capital, any other character itself
lowerChar(c) ==
    IF \E n \in 1..26 : UpperCase[n] = c
    THEN LowerCase[CHOOSE n \in 1..26 : UpperCase[n] = c]
    ELSE c

\* String.prototype.toLowerCase, character by character
toLowerCase(cs) == [k \in 1..Len(cs) |-> lowerChar(cs[k])]

\* String.prototype.includes
includes(hay, needle) ==
    \E off \in 0..(Len(hay) - Len(needle)) :
       SubSeq(hay, off + 1, off + Len(needle)) = needle

\* String.prototype.trim: the white space at both ends is removed
trim(cs) ==
    LET inked == {k \in 1..Len(cs) : cs[k] # " "}
    IN  IF inked = {} THEN << >>
        ELSE SubSeq(cs, Min(inked), CHOOSE k \in inked : \A j \in inked : j <= k)

\* ------------------------------------------------- derived view of tasks
Max(S) == CHOOSE x \in S : \A y \in S : y <= x

\* task.title.toLowerCase().includes(search) ||
\* task.description.toLowerCase().includes(search): the title is read
\* first, the description only when the title does not match
searchMatches(task, term) ==
    \/ includes(toLowerCase(chars(task.title)), toLowerCase(chars(term)))
    \/ includes(toLowerCase(chars(task.description)),
                toLowerCase(chars(term)))

\* the same expression calls toLowerCase on undefined (a TypeError) when
\* the title is missing, or when the title does not match and the
\* description is missing
searchThrows(task, term) ==
    \/ task.title = Absent
    \/ /\ ~includes(toLowerCase(chars(task.title)), toLowerCase(chars(term)))
       /\ task.description = Absent

\* the first two filters of getFilteredTasks
byStatus(ts, f) ==
    IF f.status # "all"
    THEN SelectSeq(ts, LAMBDA task : task.status = f.status) ELSE ts

byPriority(ts, f) ==
    IF f.priority # "all"
    THEN SelectSeq(ts, LAMBDA task : task.priority = f.priority) ELSE ts

\* the three filters of getFilteredTasks, in the order of the code (an
\* empty search term is falsy and filters nothing)
filterTasks(ts, f) ==
    LET passed == byPriority(byStatus(ts, f), f)
    IN  IF f.searchTerm # ""
        THEN SelectSeq(passed, LAMBDA task :
                          ~searchThrows(task, f.searchTerm)
                          /\ searchMatches(task, f.searchTerm))
        ELSE passed

\* the search filter raises a TypeError on one of the records it is given
filterThrows(ts, f) ==
    LET passed == byPriority(byStatus(ts, f), f)
    IN  /\ f.searchTerm # ""
        /\ \E i \in 1..Len(passed) : searchThrows(passed[i], f.searchTerm)

\* priorityOrder with the ranks of high and low exchanged
priorityOrder_LowFirst(p) ==
    CASE p = "high" -> 1 [] p = "medium" -> 2 [] p = "low" -> 3 [] OTHER -> 0

\* priorityOrder[p]; 0 stands for undefined
priorityOrder(p) ==
    CASE p = "high" -> 3 [] p = "medium" -> 2 [] p = "low" -> 1 [] OTHER -> 0

\* the order of the characters in a locale-aware comparison: white space,
\* digits, letters (a letter and its capital at the same place)
CollationOrder ==
    <<" ","0","1","2","3","4","5","6","7","8","9">> \o LowerCase

collationKey(cs) ==
    [k \in 1..Len(cs) |->
       CHOOSE n \in 1..Len(CollationOrder) :
          CollationOrder[n] = lowerChar(cs[k])]

\* u comes before v in the lexicographic order of two sequences of numbers
lexLess(u, v) ==
    \E k \in 1..(Len(u) + 1) :
       /\ k <= Len(v)
       /\ SubSeq(u, 1, k - 1) = SubSeq(v, 1, k - 1)
       /\ k > Len(u) \/ u[k] < v[k]

\* x.localeCompare(y) on characters: negative, zero or positive; letters
\* decide first, then, between texts with the same letters, the first
\* place where one has the small letter and the other the capital
localeCompare(x, y) ==
    IF lexLess(collationKey(x), collationKey(y)) THEN -1
    ELSE IF lexLess(collationKey(y), collationKey(x)) THEN 1
    ELSE IF x = y THEN 0
    ELSE LET k == Min({j \in 1..Len(x) : x[j] # y[j]})
         IN  IF lowerChar(x[k]) = x[k] THEN -1 ELSE 1

\* the comparator of the sort for criterion sortBy, applied to (a, b).  A
\* NaN result (a priority that is not in priorityOrder) is read by sort as
\* 0.  Under 'title', b.title undefined is compared as the text
\* "undefined"; a.title undefined throws (compareThrows) and 0 stands for
\* the value that is never returned.
compare(a, b, by) ==
    CASE by = "priority" ->
           IF priorityOrder(a.priority) = 0 \/ priorityOrder(b.priority) = 0
           THEN 0
           ELSE priorityOrder(b.priority) - priorityOrder(a.priority)
      [] by = "title" ->
           IF a.title = Absent THEN 0
           ELSE localeCompare(chars(a.title),
                              chars(IF b.title = Absent THEN "undefined"
                                    ELSE b.title))
      [] OTHER ->
           IF ~Truthy(a.dueDate) THEN 1
           ELSE IF ~Truthy(b.dueDate) THEN -1
           ELSE a.dueDate - b.dueDate

\* Array.prototype.sort is stable, and with a consistent comparator its
\* result does not depend on the engine.  The date comparator is not
\* consistent (it answers 1 both ways for two records without a due date),
\* and then the result depends on the order in which the engine hands a
\* pair to the comparator: the later element of the array first, or the
\* earlier one first.
CallOrders == {"later-first", "earlier-first"}

\* x, being inserted behind e, has to move in front of e
movesBefore(x, e, by, callOrder) ==
    IF callOrder = "later-first" THEN compare(x, e, by) < 0
    ELSE compare(e, x, by) > 0

\* that comparison throws: a.title.localeCompare with a.title undefined
compareThrows(x, e, by, callOrder) ==
    /\ by = "title"
    /\ (IF callOrder = "later-first" THEN x.title ELSE e.title) = Absent

\* where the insertion of x into sorted stops: behind the last element it
\* does not move in front of
stopAt(sorted, x, by, callOrder) ==
    Max({0} \cup {j \in 1..Len(sorted) :
                     ~movesBefore(x, sorted[j], by, callOrder)})

insert(sorted, x, by, callOrder) ==
    LET p == stopAt(sorted, x, by, callOrder)
    IN  SubSeq(sorted, 1, p) \o <<x>> \o SubSeq(sorted, p + 1, Len(sorted))

\* the first n records of ts, sorted
RECURSIVE sortPrefix(_, _, _, _)
sortPrefix(ts, n, by, callOrder) ==
    IF n = 0 THEN << >>
    ELSE CHOOSE next \in {insert(sorted, ts[n], by, callOrder) :
                            sorted \in {sortPrefix(ts, n - 1, by, callOrder)}} :
            TRUE

\* sortTasks(tasks, sortBy) / result.sort(...)
sortTasks(ts, by, callOrder) == sortPrefix(ts, Len(ts), by, callOrder)

\* one of the comparisons of that sort throws
sortThrows(ts, by, callOrder) ==
    /\ by = "title"
    /\ \E i \in 1..Len(ts) : ts[i].title = Absent
    /\ \E n \in 2..Len(ts) :
          \E sorted \in {sortPrefix(ts, n - 1, by, callOrder)} :
             \E p \in {stopAt(sorted, ts[n], by, callOrder)} :
                \E k \in 1..Len(sorted) :
                   /\ k >= p
                   /\ compareThrows(ts[n], sorted[k], by, callOrder)

\* getFilteredTasks() for task sequence ts, filters f and criterion by
getFilteredTasks(ts, f, by, callOrder) ==
    sortTasks(filterTasks(ts, f), by, callOrder)

\* getFilteredTasks() ends with a TypeError instead of a view
getFilteredTasksThrows(ts, f, by, callOrder) ==
    \/ filterThrows(ts, f)
    \/ sortThrows(filterTasks(ts, f), by, callOrder)

\* ------------------------------------------------- filter and sort settings
\* the argument of a filter or sort operation: which setting, what value
Setting(kind, value) == [filterType |-> kind, value |-> value]

\* what the filter lists, the search box and the sort menu can deliver
StatusInputs == {"all", "pending", "completed"}
PriorityInputs == {"high", "low"}
SearchInputs == {"FIX", "EDGE", " api "}
SortInputs == {"date", "priority", "title"}
FilterInputs ==
    {Setting("status", v) : v \in StatusInputs}
       \cup {Setting("priority", v) : v \in PriorityInputs}

\* render() after a change of the settings: renderTasks() hides the error
\* panel, then calls getFilteredTasks(), whose TypeError leaves the handler
renderView(threw) ==
    /\ errorState' = "none"
    /\ uncaught' = IF threw THEN "TypeError" ELSE uncaught

\* renderFilters(): the values of the items of the status list and of the
\* priority list
statusData == {"all", "pending", "completed"}
priorityData == {"high", "medium", "low"}

\* the filters f after a click on one item of the two lists
afterOneClick(f) ==
    {[f EXCEPT !.status = v] : v \in statusData}
       \cup {[f EXCEPT !.priority = v] : v \in priorityData}

\* handleFilterClick with every other filter put back to its initial value
handleFilterClick_ResetsOthers(filterType, filterValue) ==
    /\ Vanilla
    /\ UserOp("handleFilterClick", 0, Setting(filterType, filterValue), 0)
    /\ filters' = [initialFilters EXCEPT ![filterType] = filterValue]
    /\ \E callOrder \in CallOrders :
          renderView(getFilteredTasksThrows(tasks, filters', sortBy,
                                            callOrder))
    /\ UNCHANGED <<ui, app, phase, tasks, store, sortBy, now, failures,
                   responses, fetchPc>>

\* a click on an item of the status or priority list
handleFilterClick(filterType, filterValue) ==
    /\ Vanilla
    /\ UserOp("handleFilterClick", 0, Setting(filterType, filterValue), 0)
    /\ filters' = [filters EXCEPT ![filterType] = filterValue]
    /\ \E callOrder \in CallOrders :
          renderView(getFilteredTasksThrows(tasks, filters', sortBy,
                                            callOrder))
    /\ UNCHANGED <<ui, app, phase, tasks, store, sortBy, now, failures,
                   responses, fetchPc>>

\* the timer set by handleSearch fires, value being the text of the box
handleSearch(value) ==
    /\ Vanilla
    /\ UserOp("handleSearch", 0, Setting("searchTerm", value), 0)
    /\ filters' = [filters EXCEPT !.searchTerm = text(trim(chars(value)))]
    /\ \E callOrder \in CallOrders :
          renderView(getFilteredTasksThrows(tasks, filters', sortBy,
                                            callOrder))
    /\ UNCHANGED <<ui, app, phase, tasks, store, sortBy, now, failures,
                   responses, fetchPc>>

handleSortChange(value) ==
    /\ Vanilla
    /\ UserOp("handleSortChange", 0, Setting("sortBy", value), 0)
    /\ sortBy' = value
    /\ \E callOrder \in CallOrders :
          renderView(getFilteredTasksThrows(tasks, filters, sortBy',
                                            callOrder))
    /\ UNCHANGED <<ui, app, phase, tasks, store, filters, now, failures,
                   responses, fetchPc>>

\* the delay handleSearch gives setTimeout, in milliseconds
SearchDelay == 300

\* the times, in milliseconds, between two events of the page
Elapses == {100, 200}

\* what the search box can hold
BoxTexts == SearchInputs \cup {""}

\* the frame of the steps of the search box
OnlySearch ==
    UNCHANGED <<app, phase, tasks, store, sortBy, now, failures, responses,
                ops, call, fetchPc, isModalOpen, currentEditingTaskId,
                taskToEdit, submitting, deleteConfirm>>

\* handleSearch without its clearTimeout: the timer of the keystroke before
\* stays set
handleSearchInput_NoClear(value) ==
    /\ Vanilla
    /\ value # searchBox
    /\ searchTimeout < MaxKeys
    /\ searchBox' = value
    /\ searchTimeout' = searchTimeout + 1
    /\ timers' = timers \cup {[handle |-> searchTimeout + 1,
                               left |-> SearchDelay]}
    /\ OnlySearch
    /\ UNCHANGED <<filters, errorState, uncaught>>

\* handleSearch(e), the input listener of the search box, the box now
\* holding value: clearTimeout(searchTimeout), then setTimeout(..., 300),
\* whose handle (the handles count up) is kept in searchTimeout
handleSearchInput(value) ==
    /\ Vanilla
    /\ value # searchBox
    /\ searchTimeout < MaxKeys
    /\ searchBox' = value
    /\ searchTimeout' = searchTimeout + 1
    /\ timers' = {t \in timers : t.handle # searchTimeout}
                    \cup {[handle |-> searchTimeout + 1,
                           left |-> SearchDelay]}
    /\ OnlySearch
    /\ UNCHANGED <<filters, errorState, uncaught>>

\* d milliseconds pass while a timer is waiting
timePasses(d) ==
    /\ \E t \in timers : t.left > 0
    /\ timers' = {[t EXCEPT !.left = IF t.left > d THEN t.left - d ELSE 0] :
                    t \in timers}
    /\ OnlySearch
    /\ UNCHANGED <<filters, errorState, uncaught, searchBox, searchTimeout>>

\* the callback of a timer whose delay has passed: the trimmed text the box
\* holds now becomes the search term, then render()
searchTimeoutFires(t) ==
    /\ Vanilla
    /\ t \in timers
    /\ t.left = 0
    /\ timers' = timers \ {t}
    /\ filters' = [filters EXCEPT !.searchTerm = text(trim(chars(searchBox)))]
    /\ \E callOrder \in CallOrders :
          renderView(getFilteredTasksThrows(tasks, filters', sortBy,
                                            callOrder))
    /\ OnlySearch
    /\ UNCHANGED <<searchBox, searchTimeout>>

setFilter(filterType, value) ==
    dispatch([type |-> "SET_FILTER",
              payload |-> [filterType |-> filterType, value |-> value]],
             0, Setting(filterType, value), 0, TRUE)

setSort(value) ==
    dispatch([type |-> "SET_SORT", payload |-> value],
             0, Setting("sortBy", value), 0, TRUE)

\* --------------------------------------------------------- statistics
\* JavaScript numbers are IEEE 754 double-precision values.  A positive one
\* is held as its 53 significant bits m, first bit 1, and the exponent e of
\* that first bit: the value is m[1].m[2]...m[53] (binary) times 2^e.
Precision == 53

\* the number 0
Zero == [m |-> << >>, e |-> 0]

\* the 53 bits m with one unit added in the last place (rounding up), at
\* exponent e
roundedUp(m, e) ==
    IF \A k \in 1..Precision : m[k] = 1
    THEN [m |-> [k \in 1..Precision |-> IF k = 1 THEN 1 ELSE 0], e |-> e + 1]
    ELSE LET z == Max({k \in 1..Precision : m[k] = 0})
         IN  [m |-> [k \in 1..Precision |->
                       IF k < z THEN m[k] ELSE IF k = z THEN 1 ELSE 0],
              e |-> e]

\* long division by t: the next n bits of the quotient when r < t is left
RECURSIVE quotientBits(_, _, _)
quotientBits(r, t, n) ==
    IF n = 0 THEN << >>
    ELSE <<(2 * r) \div t>> \o quotientBits((2 * r) % t, t, n - 1)

\* and what is left after those n bits
RECURSIVE leftAfter(_, _, _)
leftAfter(r, t, n) ==
    IF n = 0 THEN r ELSE leftAfter((2 * r) % t, t, n - 1)

\* c / t for integers 0 <= c <= t, t > 0: the quotient is developed to 53
\* bits by long division and rounded to nearest, ties to the even last bit
divide(c, t) ==
    IF c = 0 THEN Zero
    ELSE LET k == Min({j \in 0..16 : c * 2^j >= t})
             m == <<1>> \o quotientBits(c * 2^k - t, t, Precision - 1)
             rest == 2 * leftAfter(c * 2^k - t, t, Precision - 1)
         IN  IF rest > t \/ (rest = t /\ m[Precision] = 1)
             THEN roundedUp(m, 0 - k)
             ELSE [m |-> m, e |-> 0 - k]

\* bit i (bit 0 the last one) of the 53-bit integer m
bitOf(m, i) == IF i < Precision THEN m[Precision - i] ELSE 0

\* the bits of 100 times the integer m from bit i up to bit 59, the
\* lowest first, carry having come up from the bits below
RECURSIVE productBits(_, _, _)
productBits(m, i, carry) ==
    IF i > Precision + 6 THEN << >>
    ELSE <<(100 * bitOf(m, i) + carry) % 2>>
            \o productBits(m, i + 1, (100 * bitOf(m, i) + carry) \div 2)

\* x * 100: the exact product has up to 60 bits and is rounded to 53,
\* to nearest, ties to the even last bit
times100(x) ==
    IF x = Zero THEN Zero
    ELSE LET p == productBits(x.m, 0, 0)
             top == Max({i \in 1..Len(p) : p[i] = 1})
             m == [j \in 1..Precision |-> p[top - j + 1]]
             guard == p[top - Precision]
             sticky == \E i \in 1..(top - Precision - 1) : p[i] = 1
             e == x.e + (top - 1) - (Precision - 1)
         IN  IF guard = 1 /\ (sticky \/ m[Precision] = 1)
             THEN roundedUp(m, e)
             ELSE [m |-> m, e |-> e]

\* the integer written by the first n bits of m
RECURSIVE binary(_, _)
binary(m, n) == IF n = 0 THEN 0 ELSE 2 * binary(m, n - 1) + m[n]

\* Math.round(x) for 0 <= x < 2^52: the nearest integer, a half going up
Math_round(x) ==
    IF x = Zero \/ x.e < -1 THEN 0
    ELSE IF x.e = -1 THEN 1
    ELSE binary(x.m, x.e + 1) + x.m[x.e + 2]

\* calculateStats() / getStats() over the task sequence ts
getStats(ts) ==
    LET completed == Len(SelectSeq(ts, LAMBDA task : task.status = "completed"))
        inProgress == Len(SelectSeq(ts, LAMBDA task : task.status # "completed"))
        total == Len(ts)
    IN  [total |-> total, inProgress |-> inProgress, completed |-> completed,
         completionRate |->
             IF total > 0 THEN Math_round(times100(divide(completed, total)))
             ELSE 0]

\* ------------------------------------------------------ the task form
\* the four fields of the form
FormFields == {"title", "description", "priority", "dueDate"}

\* what the form may hold when it is submitted: a complete entry, one
\* without description, and entries with no title, a title of white space,
\* a title of two characters, a description of fewer than ten characters
FormInputs ==
    { Obj([title |-> "Updated Title", description |-> "Test Description",
           priority |-> "high", dueDate |-> EmptyNum]),
      Obj([title |-> "Buy milk", description |-> "", priority |-> "medium",
           dueDate |-> 20250105]),
      Obj([title |-> "", description |-> "", priority |-> "medium",
           dueDate |-> EmptyNum]),
      Obj([title |-> "   ", description |-> "", priority |-> "medium",
           dueDate |-> EmptyNum]),
      Obj([title |-> "ab", description |-> "Test Description",
           priority |-> "low", dueDate |-> EmptyNum]),
      Obj([title |-> "Task 1", description |-> "Too short",
           priority |-> "low", dueDate |-> EmptyNum]) }

\* validate() of TaskModal: true when it has found no error
validate(formData) ==
    /\ ~( \/ trim(chars(formData.title)) = << >>
          \/ Len(chars(formData.title)) < 3 )
    /\ ~( /\ formData.description # ""
          /\ Len(chars(formData.description)) < 10 )

React == app = "react" /\ phase = "running"

\* a step that changes nothing but the forms and dialogs
OnlyUi ==
    UNCHANGED <<app, phase, tasks, store, filters, sortBy, now, failures,
                responses, ops, call, uncaught, fetchPc, errorState,
                searchBox, searchTimeout, timers>>

\* Dashboard: the New Task button
handleNewTask ==
    /\ React
    /\ taskToEdit' = null
    /\ isModalOpen' = TRUE
    /\ OnlyUi
    /\ UNCHANGED <<currentEditingTaskId, submitting, deleteConfirm>>

\* Dashboard: the Edit button of the card of tasks[i], shown on the card
\* of a pending task; the form keeps the record as it is now
handleEditTask(i) ==
    /\ React
    /\ i \in 1..Len(tasks)
    /\ tasks[i].status = "pending"
    /\ taskToEdit' = tasks[i]
    /\ isModalOpen' = TRUE
    /\ OnlyUi
    /\ UNCHANGED <<currentEditingTaskId, submitting, deleteConfirm>>

\* TaskModal onClose (the backdrop, the X button; Cancel unless a
\* submission is waiting): setIsModalOpen(false)
onClose ==
    /\ React
    /\ isModalOpen
    /\ isModalOpen' = FALSE
    /\ OnlyUi
    /\ UNCHANGED <<currentEditingTaskId, taskToEdit, submitting,
                   deleteConfirm>>

\* handleSubmit of TaskModal up to its await: a form that does not pass
\* validate() ends the call; the submit button is disabled while a
\* submission is waiting
handleSubmit(formData) ==
    /\ React
    /\ isModalOpen
    /\ submitting = NoSubmit
    /\ submitting' = IF validate(formData)
                     THEN [taskToEdit |-> taskToEdit, formData |-> formData]
                     ELSE submitting
    /\ OnlyUi
    /\ UNCHANGED <<isModalOpen, currentEditingTaskId, taskToEdit,
                   deleteConfirm>>

\* the patch and the draft handleSubmit builds from the form at clock
\* reading t
editPatch(formData, t) == Spread(formData, Obj([updatedAt |-> t]))
newDraft(formData, t) ==
    Spread(formData, Obj([status |-> "pending", createdAt |-> t]))

\* handleSubmit after its delay: updateTask or addTask with what the call
\* held when it started, then setIsSubmitting(false) and onClose()
handleSubmitResumes(rnd, ok) ==
    /\ submitting # NoSubmit
    /\ IF submitting.taskToEdit # null
       THEN dispatchThen([type |-> "UPDATE_TASK",
                          payload |-> [id |-> submitting.taskToEdit.id,
                                       updates |-> editPatch(submitting.formData,
                                                             now)]],
                         submitting.taskToEdit.id,
                         editPatch(submitting.formData, now), 0, ok)
       ELSE /\ Len(tasks) < MaxTasks
            /\ dispatchThen([type |-> "ADD_TASK",
                             payload |-> newDraft(submitting.formData, now)],
                            0, newDraft(submitting.formData, now), rnd, ok)
    /\ submitting' = NoSubmit
    /\ isModalOpen' = FALSE
    /\ UNCHANGED <<currentEditingTaskId, taskToEdit, deleteConfirm,
                   searchBox, searchTimeout, timers>>

\* Dashboard: the delete button of the card of tasks[i]
onDelete(i) ==
    /\ React
    /\ i \in 1..Len(tasks)
    /\ deleteConfirm' = tasks[i].id
    /\ OnlyUi
    /\ UNCHANGED <<isModalOpen, currentEditingTaskId, taskToEdit, submitting>>

\* the dialog's Cancel button: the dialog is rendered while deleteConfirm
\* is truthy
cancelDelete ==
    /\ React
    /\ deleteConfirm # 0
    /\ deleteConfirm' = 0
    /\ OnlyUi
    /\ UNCHANGED <<isModalOpen, currentEditingTaskId, taskToEdit, submitting>>

\* the dialog's Delete button: handleDeleteTask(deleteConfirm)
handleDeleteTask(ok) ==
    /\ deleteConfirm # 0
    /\ dispatchThen([type |-> "DELETE_TASK", payload |-> deleteConfirm],
                    deleteConfirm, Obj(<<>>), 0, ok)
    /\ deleteConfirm' = 0
    /\ UNCHANGED <<isModalOpen, currentEditingTaskId, taskToEdit, submitting,
                   searchBox, searchTimeout, timers>>

\* Dashboard: the Complete or Reopen button of the card of tasks[i]
handleToggleTask(i, ok) ==
    /\ i \in 1..Len(tasks)
    /\ dispatchThen([type |-> "TOGGLE_TASK", payload |-> tasks[i].id],
                    tasks[i].id, Obj(<<>>), 0, ok)
    /\ UNCHANGED ui

\* vanilla: openTaskModal(taskId); 0 is the call without argument (the
\* New Task button), another taskId the Edit button of a card.  The id is
\* stored first; the form is shown unless the id is of no record.
openTaskModal(taskId) ==
    /\ Vanilla
    /\ taskId = 0 \/ taskId \in IdsOf(tasks) \cup {MissingId}
    /\ currentEditingTaskId' = taskId
    /\ isModalOpen' = IF taskId # 0 /\ FindIndex(tasks, taskId) = 0
                      THEN isModalOpen ELSE TRUE
    /\ OnlyUi
    /\ UNCHANGED <<taskToEdit, submitting, deleteConfirm>>

closeTaskModal ==
    /\ Vanilla
    /\ isModalOpen
    /\ isModalOpen' = FALSE
    /\ currentEditingTaskId' = 0
    /\ OnlyUi
    /\ UNCHANGED <<taskToEdit, submitting, deleteConfirm>>

\* handleTaskFormSubmit: the four fields go to updateTask or createTask as
\* they are, then closeTaskModal() and render(); an exception of saveTasks()
\* leaves the handler before the form is closed
handleTaskFormSubmit(taskData, ok) ==
    /\ Vanilla
    /\ isModalOpen
    /\ IF currentEditingTaskId # 0
       THEN /\ UserOp("updateTask", currentEditingTaskId, taskData, 0)
            /\ IF FindIndex(tasks, currentEditingTaskId) = 0
               THEN ok /\ NoSave(tasks)
               ELSE SaveAfter(updateTaskResult(tasks, currentEditingTaskId,
                                               taskData), ok)
       ELSE /\ UserOp("createTask", 0, taskData, 0)
            /\ Len(tasks) < MaxTasks
            /\ SaveAfter(Append(tasks, newTask(taskData, now)), ok)
    /\ Rendered(~ok)
    /\ isModalOpen' = IF ok THEN FALSE ELSE isModalOpen
    /\ currentEditingTaskId' = IF ok THEN 0 ELSE currentEditingTaskId
    /\ UNCHANGED <<responses, app, phase, filters, sortBy, now, fetchPc,
                   taskToEdit, submitting, deleteConfirm, searchBox,
                   searchTimeout, timers>>

\* ---------------------------------------------------------- environment
\* the clock advances
Tick ==
    /\ events < MaxEvents
    /\ ops < MaxOps \/ fetchPc \in {"awaitFetch", "awaitJson"}
    /\ now' = now + 1
    /\ UNCHANGED <<ui, responses, ops, call, app, phase, tasks, store, filters, sortBy, failures,
                   uncaught, fetchPc, errorState>>

\* the page is reloaded: memory is lost, the storage slot is kept
Reload ==
    /\ phase \in {"running", "dead"}
    /\ UserOp("reload", 0, Obj(<<>>), 0)
    /\ phase' = "boot"
    /\ tasks' = initialState.tasks
    /\ filters' = initialState.filters
    /\ sortBy' = initialState.sortBy
    /\ uncaught' = "none"
    /\ fetchPc' = "idle"
    /\ errorState' = "none"
    /\ isModalOpen' = FALSE
    /\ currentEditingTaskId' = 0
    /\ taskToEdit' = null
    /\ submitting' = NoSubmit
    /\ deleteConfirm' = 0
    /\ searchBox' = ""
    /\ searchTimeout' = 0
    /\ timers' = {}
    /\ UNCHANGED <<responses, app, store, now, failures>>

\* ------------------------------------------------------------ specification
Init ==
    /\ app \in Apps
    /\ phase = "boot"
    /\ tasks = initialState.tasks
    /\ store \in PriorStores
    /\ filters = initialState.filters
    /\ sortBy = initialState.sortBy
    /\ now = NowBase
    /\ failures = 0
    /\ responses = 0
    /\ ops = 0
    /\ uncaught = "none"
    /\ call = Call("none", 0, Obj(<<>>), 0)
    /\ fetchPc = "idle"
    /\ errorState = "none"
    /\ uiInit

Next ==
    \/ \E readOk \in BOOLEAN, ok \in BOOLEAN : init(readOk, ok)
    \/ \E readOk \in BOOLEAN, ok \in BOOLEAN : retry(readOk, ok)
    \/ \E d \in Drafts(now), ok \in BOOLEAN : createTask(d, ok)
    \/ \E id \in IdInputs, p \in Patches(now), ok \in BOOLEAN :
          updateTask(id, p, ok)
    \/ \E id \in IdInputs, ok \in BOOLEAN : deleteTask(id, ok)
    \/ \E id \in IdInputs, ok \in BOOLEAN : toggleTaskCompletion(id, ok)
    \/ \E ok \in BOOLEAN : clearCompletedTasks(ok)
    \/ fetchTasksFromAPI
    \/ \E outcome \in {"ok", "network", "http"} : fetchSettles(outcome)
    \/ \E cause \in {"not-json", "not-array"} : jsonFails(cause)
    \/ \E todos \in Todos, due \in 0..MaxDueOffset, ok \in BOOLEAN :
          jsonResolves(todos, due, ok)
    \/ \E readOk \in BOOLEAN, ok \in BOOLEAN : TaskProvider(readOk, ok)
    \/ \E d \in Drafts(now), rnd \in 0..MaxRand, ok \in BOOLEAN :
          addTask(d, rnd, ok)
    \/ \E id \in IdInputs, p \in Patches(now), ok \in BOOLEAN :
          updateTaskR(id, p, ok)
    \/ \E id \in IdInputs, ok \in BOOLEAN : deleteTaskR(id, ok)
    \/ \E id \in IdInputs, ok \in BOOLEAN : toggleTask(id, ok)
    \/ \E ok \in BOOLEAN : clearCompleted(ok)
    \/ Tick
    \/ Reload

Spec == Init /\ [][Next]_vars

\* ------------------------------------- specification of the settings
\* The spec scenario's draft: no description, no due date
BuyMilk == Obj([title |-> "Buy milk", priority |-> "low"])

\* a clock reading of an earlier session, after the sample dates
EarlierSession == 20241223

\* ts after an ADD of draft in application a during an earlier session
\* (the clock and the random draw chosen so that the id is new)
added(a, ts, draft) ==
    IF a = "react"
    THEN taskReducer([tasks |-> ts, filters |-> initialFilters,
                      sortBy |-> "date"],
                     [type |-> "ADD_TASK", payload |-> draft],
                     EarlierSession, Len(ts)).tasks
    ELSE Append(ts, newTask(draft, EarlierSession + Len(ts)))

\* task sequences an earlier part of the session has left in application
\* a: nothing, the sample tasks, the sample tasks and one added from the
\* draft {title, priority}, two dated records followed by two added without
\* a due date, only records without a due date, and the sample tasks with
\* the fourth given the id of the first by an UPDATE
ViewStores(a) ==
    { << >>,
      getSampleTasks,
      added(a, getSampleTasks, BuyMilk),
      added(a, added(a, <<getSampleTasks[3], getSampleTasks[1]>>,
                     Obj([title |-> "Task 1", description |-> "",
                          priority |-> "low"])),
            Obj([title |-> "Test Task", description |-> "Test Description",
                 priority |-> "high", dueDate |-> EmptyNum,
                 status |-> "pending", createdAt |-> EarlierSession])),
      added(a, added(a, << >>,
                     Obj([title |-> "Test Task",
                          description |-> "Test Description",
                          priority |-> "high", dueDate |-> EmptyNum,
                          status |-> "pending", createdAt |-> EarlierSession])),
            Obj([title |-> "Task 1", description |-> "",
                 priority |-> "low"])),
      updateTaskResult(getSampleTasks, 4, Obj([id |-> 1])) }

\* the slot after the task sequence ts was reached: its serialization;
\* the React save effect has not written the empty array but kept the last
\* record that was cleared
slotOf(a, ts) ==
    IF a = "react" /\ ts = << >> THEN JSON_stringify(<<getSampleTasks[4]>>)
    ELSE JSON_stringify(ts)

ViewInit ==
    /\ app \in Apps
    /\ phase = "running"
    /\ tasks \in ViewStores(app)
    /\ store = slotOf(app, tasks)
    /\ filters = initialState.filters
    /\ sortBy = initialState.sortBy
    /\ now = NowBase
    /\ failures = 0
    /\ responses = 0
    /\ ops = 0
    /\ uncaught = "none"
    /\ call = Call("none", 0, Obj(<<>>), 0)
    /\ fetchPc = "idle"
    /\ errorState = "none"
    /\ uiInit

ViewNext ==
    \/ \E s \in FilterInputs : handleFilterClick(s.filterType, s.value)
    \/ \E v \in SearchInputs : handleSearch(v)
    \/ \E v \in SortInputs : handleSortChange(v)
    \/ \E s \in FilterInputs \cup {Setting("searchTerm", v) : v \in SearchInputs} :
          setFilter(s.filterType, s.value)
    \/ \E v \in SortInputs : setSort(v)

ViewSpec == ViewInit /\ [][ViewNext]_vars

\* ------------------------------------- specification of the statistics
\* the task sequence after n ADDs of draft in application a during an
\* earlier session
RECURSIVE addedTimes(_, _, _)
addedTimes(a, n, draft) ==
    IF n = 0 THEN << >>
    ELSE CHOOSE next \in {added(a, ts, draft) :
                            ts \in {addedTimes(a, n - 1, draft)}} : TRUE

\* ts after a TOGGLE of each of its first k records at clock reading t
completedFirst(ts, k, t) ==
    [i \in 1..Len(ts) |->
       IF i <= k THEN Spread(ts[i], togglePatch(ts[i], t)) ELSE ts[i]]

\* how many records an earlier session has added, and how many of them it
\* has completed
StatsSizes == {<<0, 0>>, <<1, 0>>, <<3, 1>>, <<8, 1>>, <<40, 22>>}

StatsStores(a) ==
    {completedFirst(addedTimes(a, nk[1], BuyMilk), nk[2],
                    EarlierSession + nk[1]) : nk \in StatsSizes}

StatsInit ==
    /\ app \in Apps
    /\ phase = "running"
    /\ tasks \in StatsStores(app)
    /\ store = slotOf(app, tasks)
    /\ filters = initialState.filters
    /\ sortBy = initialState.sortBy
    /\ now = NowBase
    /\ failures = 0
    /\ responses = 0
    /\ ops = 0
    /\ uncaught = "none"
    /\ call = Call("none", 0, Obj(<<>>), 0)
    /\ fetchPc = "idle"
    /\ errorState = "none"
    /\ uiInit

\* the operations that change what the statistics count
StatsNext ==
    \/ \E d \in Drafts(now), ok \in BOOLEAN : createTask(d, ok)
    \/ \E id \in IdInputs, p \in Patches(now), ok \in BOOLEAN :
          updateTask(id, p, ok)
    \/ \E id \in IdInputs, ok \in BOOLEAN : deleteTask(id, ok)
    \/ \E id \in IdInputs, ok \in BOOLEAN : toggleTaskCompletion(id, ok)
    \/ \E ok \in BOOLEAN : clearCompletedTasks(ok)
    \/ \E d \in Drafts(now), rnd \in 0..MaxRand, ok \in BOOLEAN :
          addTask(d, rnd, ok)
    \/ \E id \in IdInputs, p \in Patches(now), ok \in BOOLEAN :
          updateTaskR(id, p, ok)
    \/ \E id \in IdInputs, ok \in BOOLEAN : deleteTaskR(id, ok)
    \/ \E id \in IdInputs, ok \in BOOLEAN : toggleTask(id, ok)
    \/ \E ok \in BOOLEAN : clearCompleted(ok)

StatsSpec == StatsInit /\ [][StatsNext]_vars

\* ----------------------------------------- specification of the forms
\* two ADDs of draft in the React application, the second one clock
\* reading later and with a random draw one smaller: both records get the
\* same id
addedTwice(ts, draft) ==
    taskReducer(taskReducer([tasks |-> ts, filters |-> initialFilters,
                             sortBy |-> "date"],
                            [type |-> "ADD_TASK", payload |-> draft],
                            EarlierSession, 1),
                [type |-> "ADD_TASK", payload |-> draft],
                EarlierSession + 1, 0).tasks

\* task sequences an earlier part of the session has left: the first and
\* the last sample task, and in React also the two records of addedTwice
FormStores(a) ==
    {<<getSampleTasks[1], getSampleTasks[4]>>}
       \cup (IF a = "react"
             THEN {addedTwice(<< >>, newDraft(BuyMilk, EarlierSession))}
             ELSE {})

FormInit ==
    /\ app \in Apps
    /\ phase = "running"
    /\ tasks \in FormStores(app)
    /\ store = slotOf(app, tasks)
    /\ filters = initialState.filters
    /\ sortBy = initialState.sortBy
    /\ now = NowBase
    /\ failures = 0
    /\ responses = 0
    /\ ops = 0
    /\ uncaught = "none"
    /\ call = Call("none", 0, Obj(<<>>), 0)
    /\ fetchPc = "idle"
    /\ errorState = "none"
    /\ uiInit

FormNext ==
    \/ handleNewTask
    \/ \E i \in 1..MaxTasks : handleEditTask(i)
    \/ onClose
    \/ \E formData \in FormInputs : handleSubmit(formData)
    \/ \E rnd \in 0..MaxRand, ok \in BOOLEAN : handleSubmitResumes(rnd, ok)
    \/ \E i \in 1..MaxTasks : onDelete(i)
    \/ cancelDelete
    \/ \E ok \in BOOLEAN : handleDeleteTask(ok)
    \/ \E i \in 1..MaxTasks, ok \in BOOLEAN : handleToggleTask(i, ok)
    \/ \E id \in {0} \cup IdInputs : openTaskModal(id)
    \/ closeTaskModal
    \/ \E formData \in FormInputs, ok \in BOOLEAN :
          handleTaskFormSubmit(formData, ok)
    \/ Tick

FormSpec == FormInit /\ [][FormNext]_vars

\* ------------------------------- specification of the search box
\* The vanilla page has loaded one of the task sequences of ViewStores; the
\* user types into the search box, at most MaxKeys input events.  The event
\* loop of the browser lets time pass and runs the callback of every timer
\* whose delay has passed: both steps are weakly fair (the second stated
\* over the set of timers, which every run of a callback changes).
SearchInit ==
    /\ app = "vanilla"
    /\ phase = "running"
    /\ tasks \in ViewStores(app)
    /\ store = slotOf(app, tasks)
    /\ filters = initialState.filters
    /\ sortBy = initialState.sortBy
    /\ now = NowBase
    /\ failures = 0
    /\ responses = 0
    /\ ops = 0
    /\ uncaught = "none"
    /\ call = Call("none", 0, Obj(<<>>), 0)
    /\ fetchPc = "idle"
    /\ errorState = "none"
    /\ uiInit

timePassesSome == \E d \in Elapses : timePasses(d)

searchTimeoutFiresSome == \E t \in timers : searchTimeoutFires(t)

\* what a step of searchTimeoutFires does to the set of timers: a timer
\* whose delay has passed leaves it.  No other step of the search box does
\* that (an input event sets a new timer, passing time keeps the handles),
\* and such a step is possible exactly when searchTimeoutFires is.
dueTimerRuns == \E t \in timers : t.left = 0 /\ timers' = timers \ {t}

SearchNext ==
    \/ \E v \in BoxTexts : handleSearchInput(v)
    \/ timePassesSome
    \/ searchTimeoutFiresSome

SearchSpec ==
    /\ SearchInit
    /\ [][SearchNext]_vars
    /\ WF_vars(timePassesSome)
    /\ WF_timers(dueTimerRuns)

\* ------------------------------------------------------------- properties
AddOps == {"createTask", "ADD_TASK"}
UpdateOps == {"updateTask", "UPDATE_TASK"}
DeleteOps == {"deleteTask", "DELETE_TASK"}
ToggleOps == {"toggleTaskCompletion", "TOGGLE_TASK"}
ClearOps == {"clearCompletedTasks", "CLEAR_COMPLETED"}
MutationOps == AddOps \cup UpdateOps \cup DeleteOps \cup ToggleOps \cup ClearOps

\* this step is a user operation of one of the kinds in kinds
StepOf(kinds) == ops' = ops + 1 /\ call'.op \in kinds

\* this step is such an operation and no storage call has thrown so far
CleanStepOf(kinds) == StepOf(kinds) /\ failures' = 0

\* completedAt is set: neither missing nor null
IsSet(v) == v > 0

\* C1: every ADD gives the new record an id that no record already in the
\* store carries (React ADD_TASK and vanilla createTask).
C1_AddIdIsFresh ==
    [][CleanStepOf(AddOps) => tasks'[Len(tasks')].id \notin IdsOf(tasks)]_vars

\* C2: in every reachable state (already in those reached without any
\* storage call throwing) no two records of the task sequence share an id.
C2_IdsUnique ==
    failures = 0 =>
        \A i, j \in 1..Len(tasks) : i # j => tasks[i].id # tasks[j].id

\* C3: after any ADD, UPDATE, DELETE, TOGGLE or CLEAR_COMPLETED that changes
\* the task sequence (also to the empty sequence) and whose storage write
\* did not throw, the slot holds the serialization of exactly the in-memory
\* task sequence.
C3_PersistedAfterMutation ==
    [][(CleanStepOf(MutationOps) /\ tasks' # tasks)
          => store' = JSON_stringify(tasks')]_vars

\* C4: in every reachable state (already in those reached without any
\* storage call throwing) every record has completedAt set if and only if
\* its status is completed.
C4_CompletedAtIffCompleted ==
    failures = 0 =>
        \A i \in 1..Len(tasks) :
            IsSet(tasks[i].completedAt) <=> tasks[i].status = "completed"

\* the task sequence after one more TOGGLE of taskId at clock reading t
toggled(ts, taskId, t) ==
    IF app = "react"
    THEN taskReducer([tasks |-> ts, filters |-> filters, sortBy |-> sortBy],
                     [type |-> "TOGGLE_TASK", payload |-> taskId], t, 0).tasks
    ELSE IF FindIndex(ts, taskId) = 0 THEN ts
    ELSE updateTaskResult(ts, taskId,
                          togglePatch(ts[FindIndex(ts, taskId)], t))

\* the positions a TOGGLE of taskId writes: every match in the reducer's
\* map, the first match of Array.find in the vanilla page
togglePositions(ts, taskId) ==
    IF app = "react" THEN {i \in 1..Len(ts) : ts[i].id = taskId}
    ELSE {FindIndex(ts, taskId)} \ {0}

\* the clock readings at which a later operation may run
LaterReadings == now'..(NowBase + MaxEvents)

\* the same completedAt, missing and null both reading as cleared
SameCompletedAt(v, w) == (~IsSet(v) /\ ~IsSet(w)) \/ v = w

\* C5 (as claimed): when a record has been toggled, a second TOGGLE of the
\* same id returns its status and its completedAt (missing and null both
\* reading as cleared) to the values they had before the first TOGGLE.
C5_ToggleTwiceRestores ==
    [][CleanStepOf(ToggleOps) =>
         \A i \in togglePositions(tasks, call'.id), t \in LaterReadings :
            LET twice == toggled(tasks', call'.id, t)[i]
            IN  /\ twice.status = tasks[i].status
                /\ SameCompletedAt(twice.completedAt,
                                   tasks[i].completedAt)]_vars

\* C5 (amended): when a record has been toggled and the application is
\* there to take a second TOGGLE of the same id, that second TOGGLE returns
\* the record's status to the value before the first TOGGLE; completedAt is
\* then null if the record was pending before the first TOGGLE, and the time
\* of the second TOGGLE if it was completed.
C5_ToggleTwiceStatus ==
    [][(StepOf(ToggleOps) /\ phase' = "running") =>
         \A i \in togglePositions(tasks, call'.id), t \in LaterReadings :
            LET twice == toggled(tasks', call'.id, t)[i]
            IN  /\ twice.status = tasks[i].status
                /\ tasks[i].status # "completed"
                      => twice.completedAt = NullNum
                /\ tasks[i].status = "completed"
                      => twice.completedAt = t]_vars

\* a completed record has just been toggled: it is pending, completedAt null
C5_Witness ==
    /\ call.op \in ToggleOps
    /\ \E i \in togglePositions(tasks, call.id) :
          /\ tasks[i].status = "pending"
          /\ tasks[i].completedAt = NullNum

\* C6: a record's id and createdAt never change while it stays in the
\* store: UPDATE and TOGGLE keep every record's id and createdAt, and the
\* records left by DELETE and CLEAR_COMPLETED are records of the store as
\* they were.
C6_IdAndCreatedAtImmutable ==
    [][/\ CleanStepOf(UpdateOps \cup ToggleOps) =>
            /\ Len(tasks') = Len(tasks)
            /\ \A i \in 1..Len(tasks) :
                  /\ tasks'[i].id = tasks[i].id
                  /\ tasks'[i].createdAt = tasks[i].createdAt
       /\ CleanStepOf(DeleteOps \cup ClearOps) =>
            \A i \in 1..Len(tasks') : \E j \in 1..Len(tasks) :
                  tasks'[i] = tasks[j]]_vars

\* C7: every record appended by ADD carries a createdAt, whatever the draft
\* contains or omits.
C7_AddSetsCreatedAt ==
    [][CleanStepOf(AddOps) => IsSet(tasks'[Len(tasks')].createdAt)]_vars

\* C8: a storage read or write that throws does not crash the load or
\* mutation path: no exception leaves the operation and the application
\* keeps accepting actions.
C8_StorageFailureContained ==
    uncaught = "none" /\ phase # "dead"

\* the task sequence the operation of invocation c leaves when its save
\* succeeds, from task sequence ts at clock reading t
applied(c, ts, t) ==
    CASE c.op = "createTask" -> Append(ts, newTask(c.data, t))
      [] c.op = "updateTask" -> updateTaskResult(ts, c.id, c.data)
      [] c.op = "deleteTask" -> withoutId(ts, c.id)
      [] c.op = "toggleTaskCompletion" -> toggled(ts, c.id, t)
      [] c.op = "clearCompletedTasks" -> withoutCompleted(ts)
      [] c.op = "ADD_TASK" ->
           Append(ts, Spread(c.data, Obj([id |-> t + c.rnd,
                                          status |-> "pending"])))
      [] c.op = "UPDATE_TASK" ->
           [i \in 1..Len(ts) |-> IF ts[i].id = c.id
                                 THEN Spread(ts[i], c.data) ELSE ts[i]]
      [] c.op = "DELETE_TASK" -> withoutId(ts, c.id)
      [] c.op = "TOGGLE_TASK" -> toggled(ts, c.id, t)
      [] c.op = "CLEAR_COMPLETED" -> withoutCompleted(ts)
      [] OTHER -> ts

\* C9: when the storage write of an ADD, UPDATE, DELETE, TOGGLE or
\* CLEAR_COMPLETED throws, the in-memory task sequence afterwards is the
\* one the operation produces when the save succeeds.
C9_FailedSaveKeepsUpdate ==
    [][(StepOf(MutationOps) /\ failures' = failures + 1)
          => tasks' = applied(call', tasks, now)]_vars

\* this step is one of fetchTasksFromAPI in which no storage call threw
FetchStep == fetchPc' # fetchPc /\ ops' = ops /\ failures' = failures

C11_AddAppendsPending ==
    [][CleanStepOf(AddOps) =>
          /\ Len(tasks') = Len(tasks) + 1
          /\ SubSeq(tasks', 1, Len(tasks)) = tasks
          /\ tasks'[Len(tasks')].status = "pending"
          /\ ~IsSet(tasks'[Len(tasks')].completedAt)]_vars

\* the positions of the records that carry taskId
positionsOf(ts, taskId) == {i \in 1..Len(ts) : ts[i].id = taskId}

\* C12: a TOGGLE of an id leaves the filter and sort settings and the
\* length of the task sequence as they are; when no record carries the id
\* the task sequence is unchanged; otherwise exactly one record, one that
\* carries the id, changes: its status goes from pending to completed with
\* a completedAt set, or from completed to pending with completedAt cleared,
\* and its other fields stay.
C12_ToggleChangesOneRecord ==
    [][CleanStepOf(ToggleOps) =>
          /\ filters' = filters /\ sortBy' = sortBy
          /\ Len(tasks') = Len(tasks)
          /\ positionsOf(tasks, call'.id) = {} => tasks' = tasks
          /\ positionsOf(tasks, call'.id) # {} =>
                \E i \in positionsOf(tasks, call'.id) :
                   /\ \A j \in 1..Len(tasks) : j # i => tasks'[j] = tasks[j]
                   /\ \A f \in Fields \ {"status", "completedAt"} :
                         tasks'[i][f] = tasks[i][f]
                   /\ tasks[i].status = "pending" =>
                         /\ tasks'[i].status = "completed"
                         /\ IsSet(tasks'[i].completedAt)
                   /\ tasks[i].status = "completed" =>
                         /\ tasks'[i].status = "pending"
                         /\ ~IsSet(tasks'[i].completedAt)]_vars

\* C13: an UPDATE of an id with a patch leaves the task sequence as it is
\* when no record carries the id (and the vanilla page then writes nothing
\* to the slot); otherwise the sequence keeps its length and exactly one
\* record, one that carries the id, is rewritten in place: its patched
\* fields take the patch's values, its other fields stay, and every other
\* record is untouched.
C13_UpdateMergesOneRecord ==
    [][CleanStepOf(UpdateOps) =>
          /\ Len(tasks') = Len(tasks)
          /\ positionsOf(tasks, call'.id) = {} =>
                /\ tasks' = tasks
                /\ app = "vanilla" => store' = store
          /\ positionsOf(tasks, call'.id) # {} =>
                \E i \in positionsOf(tasks, call'.id) :
                   /\ \A j \in 1..Len(tasks) : j # i => tasks'[j] = tasks[j]
                   /\ \A f \in Fields :
                         tasks'[i][f] = IF call'.data[f] # Undef(f)
                                        THEN call'.data[f]
                                        ELSE tasks[i][f]]_vars

\* ts without its i-th record
dropAt(ts, i) == SubSeq(ts, 1, i - 1) \o SubSeq(ts, i + 1, Len(ts))

\* the task sequence after one more DELETE of taskId
deleted(ts, taskId) ==
    IF app = "react"
    THEN taskReducer([tasks |-> ts, filters |-> filters, sortBy |-> sortBy],
                     [type |-> "DELETE_TASK", payload |-> taskId], now, 0).tasks
    ELSE withoutId(ts, taskId)

\* C14: a DELETE of an id that some record carries removes exactly one
\* record, one that carries the id, and keeps the others in their order; a
\* DELETE of an id that no record carries leaves the task sequence and the
\* filter and sort settings as they are, and so does a second DELETE of
\* the id just deleted.
C14_DeleteRemovesOneRecord ==
    [][CleanStepOf(DeleteOps) =>
          /\ filters' = filters /\ sortBy' = sortBy
          /\ positionsOf(tasks, call'.id) = {} => tasks' = tasks
          /\ positionsOf(tasks, call'.id) # {} =>
                /\ Len(tasks') = Len(tasks) - 1
                /\ \E i \in positionsOf(tasks, call'.id) :
                      tasks' = dropAt(tasks, i)
          /\ deleted(tasks', call'.id) = tasks']_vars

\* the task sequence after one more CLEAR_COMPLETED
cleared(ts) ==
    IF app = "react"
    THEN taskReducer([tasks |-> ts, filters |-> filters, sortBy |-> sortBy],
                     [type |-> "CLEAR_COMPLETED"], now, 0).tasks
    ELSE withoutCompleted(ts)

\* the positions of the records of ts that are not completed
openPositions(ts) == {i \in 1..Len(ts) : ts[i].status # "completed"}

\* the k-th of a set of positions, in increasing order
nth(S, k) == CHOOSE i \in S : Cardinality({j \in S : j <= i}) = k

\* C15: after CLEAR_COMPLETED no record of the task sequence is completed,
\* and the sequence is made of the records that were not completed, each
\* unchanged, in the order they had; a second CLEAR_COMPLETED changes
\* nothing.
C15_ClearCompleted ==
    [][CleanStepOf(ClearOps) =>
          /\ \A k \in 1..Len(tasks') : tasks'[k].status # "completed"
          /\ Len(tasks') = Cardinality(openPositions(tasks))
          /\ \A k \in 1..Len(tasks') :
                tasks'[k] = tasks[nth(openPositions(tasks), k)]
          /\ cleared(tasks') = tasks']_vars

\* CLEAR_COMPLETED has just removed the completed fourth sample task and
\* kept the three pending ones
C15_Witness ==
    /\ call.op \in ClearOps
    /\ failures = 0
    /\ tasks = SubSeq(getSampleTasks, 1, 3)

\* the state of the reducer
state == [tasks |-> tasks, filters |-> filters, sortBy |-> sortBy]

\* C16: in every state of the React application the reducer returns, for
\* every action object, a store and raises no error, also for an action
\* without payload; for an action of a type it does not know it returns the
\* state it was given.
C16_ReducerTotal ==
    (app = "react" /\ phase = "running") =>
        \A action \in BareActions :
           /\ ~taskReducerThrows(state, action)
           /\ action.type \notin ActionTypes =>
                 taskReducer(state, action, now, 0) = state

SetFilterOps == {"SET_FILTER", "handleFilterClick", "handleSearch"}
SetSortOps == {"SET_SORT", "handleSortChange"}

\* the value a filter operation stores: the search box's text is trimmed
\* by the vanilla page
storedValue(c) ==
    IF c.op = "handleSearch" THEN text(trim(chars(c.data.value)))
    ELSE c.data.value

\* C17: a SET_FILTER (React setFilter; vanilla filter click and search
\* box) overwrites the filter field it names and leaves the other filter
\* fields, sortBy and the task sequence as they are; a SET_SORT (React
\* setSort; vanilla sort menu) overwrites sortBy and leaves the filters and
\* the task sequence as they are.
C17_SetFilterSetSortFrame ==
    [][/\ StepOf(SetFilterOps) =>
            /\ tasks' = tasks
            /\ sortBy' = sortBy
            /\ DOMAIN filters' = DOMAIN filters
            /\ \A k \in DOMAIN filters :
                  filters'[k] = IF k = call'.data.filterType
                                THEN storedValue(call')
                                ELSE filters[k]
       /\ StepOf(SetSortOps) =>
            /\ tasks' = tasks
            /\ filters' = filters
            /\ sortBy' = call'.data.value]_vars

\* a filter has just been set on a store with records while another
\* filter and the sort criterion already had a value of their own
C17_Witness ==
    /\ call.op \in SetFilterOps
    /\ call.data.filterType = "status"
    /\ filters.status = "completed"
    /\ filters.priority = "high" \/ filters.searchTerm # ""
           \/ sortBy # "date"
    /\ Len(tasks) > 0

\* term occurs in hay when capitals and small letters are not told apart;
\* a text that is missing contains nothing
occursIn(term, hay) ==
    /\ hay # Absent
    /\ \E off \in 0..(Len(chars(hay)) - Len(chars(term))) :
          \A k \in 1..Len(chars(term)) :
             lowerChar(chars(hay)[off + k]) = lowerChar(chars(term)[k])

\* the record passes all active filters of f
passes(task, f) ==
    /\ f.status # "all" => task.status = f.status
    /\ f.priority # "all" => task.priority = f.priority
    /\ f.searchTerm # "" =>
          \/ occursIn(f.searchTerm, task.title)
          \/ occursIn(f.searchTerm, task.description)

\* how many times record r stands in ts
count(ts, r) == Cardinality({i \in 1..Len(ts) : ts[i] = r})

\* C18: under the current filters, getFilteredTasks() returns a view (it
\* does not fail), and that view holds exactly the records of the task
\* sequence that pass all active filters, each as often as it stands in
\* the task sequence and unaltered.
C18_FilteredViewExact ==
    \A callOrder \in CallOrders :
       /\ ~getFilteredTasksThrows(tasks, filters, sortBy, callOrder)
       /\ LET view == getFilteredTasks(tasks, filters, sortBy, callOrder)
          IN  /\ \A i \in 1..Len(view) :
                    count(tasks, view[i]) > 0 /\ passes(view[i], filters)
              /\ \A j \in 1..Len(tasks) :
                    count(view, tasks[j]) =
                       IF passes(tasks[j], filters)
                       THEN count(tasks, tasks[j]) ELSE 0

\* the filter settings that select one status and nothing else
onlyStatus(status) ==
    [status |-> status, priority |-> "all", searchTerm |-> ""]

\* C19: in every reachable state (already in those reached without any
\* storage call throwing), with the priority filter 'all' and an empty
\* search term, no id occurs both in the view under status = completed and
\* in the view under status = pending, and the ids of the two views
\* together are the ids of the task sequence.
C19_StatusViewsPartition ==
    failures = 0 =>
        \A callOrder \in CallOrders :
           LET done == IdsOf(getFilteredTasks(tasks, onlyStatus("completed"),
                                              sortBy, callOrder))
               open == IdsOf(getFilteredTasks(tasks, onlyStatus("pending"),
                                              sortBy, callOrder))
           IN  /\ done \cap open = {}
               /\ done \cup open = IdsOf(tasks)

\* the record has a due date: dueDate is neither missing, null nor ""
hasDueDate(task) == Truthy(task.dueDate)

\* C20: in every reachable state (already in those reached without any
\* storage call throwing) with sort criterion 'date', whatever the filters,
\* the view is in ascending order of due date, every record without a due
\* date stands after every record with one, and the records without a due
\* date stand in the order they have in the task sequence.
C20_DateSortOrder ==
    \A callOrder \in CallOrders :
       (failures = 0 /\ sortBy = "date" /\ ~filterThrows(tasks, filters)) =>
          LET original == filterTasks(tasks, filters)
              view == getFilteredTasks(tasks, filters, sortBy, callOrder)
          IN  \A i, j \in 1..Len(view) : i < j =>
                 /\ (hasDueDate(view[i]) /\ hasDueDate(view[j])) =>
                       view[i].dueDate <= view[j].dueDate
                 /\ hasDueDate(view[j]) => hasDueDate(view[i])
                 /\ (~hasDueDate(view[i]) /\ ~hasDueDate(view[j])) =>
                       \E a, b \in 1..Len(original) :
                          /\ a < b
                          /\ original[a] = view[i]
                          /\ original[b] = view[j]

\* the records of ts that have priority p, in their order
ofPriority(ts, p) == SelectSeq(ts, LAMBDA task : task.priority = p)

\* C21: with sort criterion 'priority', whatever the filters, no low record
\* of the view stands before a medium or a high one, no medium record
\* before a high one, and the records of one priority stand in the order
\* they have in the task sequence.
C21_PrioritySortOrder ==
    \A callOrder \in CallOrders :
       (sortBy = "priority" /\ ~filterThrows(tasks, filters)) =>
          LET original == filterTasks(tasks, filters)
              view == getFilteredTasks(tasks, filters, sortBy, callOrder)
          IN  /\ \A i, j \in 1..Len(view) : i < j =>
                    /\ view[i].priority = "low" =>
                          view[j].priority \notin {"medium", "high"}
                    /\ view[i].priority = "medium" =>
                          view[j].priority # "high"
              /\ \A p \in {"high", "medium", "low"} :
                    ofPriority(view, p) = ofPriority(original, p)

\* the sort menu has just been set to 'priority' on a task sequence where
\* a low record stands before a high one and two records are high
C21_Witness ==
    /\ call.op \in SetSortOps
    /\ sortBy = "priority"
    /\ filters = initialFilters
    /\ Len(ofPriority(tasks, "high")) >= 2
    /\ \E i, j \in 1..Len(tasks) :
          i < j /\ tasks[i].priority = "low" /\ tasks[j].priority = "high"

\* the number of completed records of ts
completedIn(ts) ==
    Cardinality({i \in 1..Len(ts) : ts[i].status = "completed"})

\* 100 * c / t rounded to the nearest integer, a half going up
percent(c, t) == (200 * c + t) \div (2 * t)

\* C22: in every reachable state the statistics (which read the task
\* sequence only, not the filters) have total = number of records,
\* completed = number of completed records, inProgress = total - completed,
\* and completionRate = 100 * completed / total rounded to the nearest
\* integer, or 0 when there is no record.
C22_StatsExact ==
    LET stats == getStats(tasks)
    IN  /\ stats.total = Len(tasks)
        /\ stats.completed = completedIn(tasks)
        /\ stats.inProgress = stats.total - stats.completed
        /\ stats.completionRate =
              IF Len(tasks) = 0 THEN 0
              ELSE percent(completedIn(tasks), Len(tasks))

\* the entry passes the checks of the form: the title is not empty and
\* not white space only and has at least 3 characters, and the description
\* is empty or has at least 10 characters
wellFormed(entry) ==
    /\ \E k \in 1..Len(chars(entry.title)) : chars(entry.title)[k] # " "
    /\ Len(chars(entry.title)) >= 3
    /\ entry.description = "" \/ Len(chars(entry.description)) >= 10

\* C23: every ADD and every UPDATE that comes from a submitted task form
\* (vanilla handleTaskFormSubmit, React TaskModal) carries an entry that
\* passes the checks of the form, and the record it creates or edits then
\* has a title that is not empty.
C23_InvalidFormNeverDispatched ==
    [][StepOf(AddOps \cup UpdateOps) =>
          /\ wellFormed(call'.data)
          /\ \A i \in 1..Len(tasks') :
                (i > Len(tasks) \/ tasks'[i] # tasks[i]) =>
                   tasks'[i].title \notin {"", Absent}]_vars

\* the task sequence ts holds exactly the records of the stored array:
\* every key of a stored record with its value, no other key
holdsStored(ts, item) ==
    /\ Len(ts) = Len(item.json)
    /\ \A i \in 1..Len(ts) : \A f \in Fields :
          ts[i][f] = IF f \in DOMAIN item.json[i] THEN item.json[i][f]
                     ELSE Undef(f)

\* a page load that gets through: init() of the vanilla page, the mount of
\* TaskProvider in React
Startup == phase = "boot" /\ phase' = "running"

\* C24: after a startup, if the storage slot held a saved task array the
\* task sequence equals that array and the slot is left as it was;
\* otherwise the task sequence equals the four sample records and the slot
\* now holds those four records.
C24_StartupLoadsOrSeeds ==
    [][Startup =>
          IF store.present
          THEN holdsStored(tasks', store) /\ store' = store
          ELSE /\ tasks' = getSampleTasks
               /\ Len(tasks') = 4
               /\ store'.present
               /\ holdsStored(getSampleTasks, store')]_vars

\* C24: a first run has completed: the four sample records are the task
\* sequence and the slot, empty before, holds them
C24_Witness ==
    /\ phase = "running"
    /\ ops = 0
    /\ Len(tasks) = 4
    /\ tasks = getSampleTasks
    /\ store.present
    /\ holdsStored(tasks, store)

\* what the load effect of TaskProvider makes of the slot at the next start
reloaded(item) == IF item.present THEN JSON_parse(item) ELSE getSampleTasks

\* C26: in the React app, as long as no storage call has thrown, a reload
\* would bring back exactly the task sequence now in memory (the empty
\* sequence after the last task was removed included), so that no task
\* removed by DELETE or CLEAR_COMPLETED comes back.
C26_ReloadRestoresTasks ==
    (app = "react" /\ phase = "running" /\ failures = 0)
        => reloaded(store) = tasks

\* the remote fetch ends with its response merged and no error shown
FetchSucceeds ==
    FetchStep /\ fetchPc = "awaitJson" /\ fetchPc' = "idle"
              /\ errorState' = "none"

fetchedRecord(task) == task.description = "Fetched from API"

\* C27: when the remote fetch of the vanilla page succeeds, the task
\* sequence is the sequence as it stood when the response was resolved
\* (the creates, updates, deletes, toggles and clears done since the fetch
\* began included), followed by the fetched records and nothing else, and
\* the slot holds that same sequence.
C27_FetchMergeKeepsMutations ==
    [][FetchSucceeds =>
          /\ Len(tasks') >= Len(tasks)
          /\ SubSeq(tasks', 1, Len(tasks)) = tasks
          /\ \A i \in (Len(tasks) + 1)..Len(tasks') : fetchedRecord(tasks'[i])
          /\ store'.present
          /\ holdsStored(tasks', store')]_vars

\* C27: a task was created while the fetch was in flight; the fetch has
\* succeeded, the created record stands before the fetched records and
\* the slot holds them all
C27_Witness ==
    /\ app = "vanilla"
    /\ call.op = "createTask"
    /\ fetchPc = "idle"
    /\ responses > 0
    /\ errorState = "none"
    /\ \E k \in 1..(Len(tasks) - 1) :
          /\ tasks[k].title = call.data.title
          /\ tasks[k].id >= NowBase
          /\ ~fetchedRecord(tasks[k])
          /\ fetchedRecord(tasks[k + 1])
    /\ holdsStored(tasks, store)

\* a step of the Dashboard that closes the confirmation dialog
DialogCloses == deleteConfirm # 0 /\ deleteConfirm' = 0

\* C25: on the Dashboard a DELETE is dispatched only while a confirmation
\* is pending and for the task whose delete button was pressed; when its
\* storage write does not throw, it removes exactly that task, leaving the
\* other records and their order, and closes the dialog.  Cancelling closes
\* the dialog and leaves the task sequence unchanged.
C25_DeleteOnlyAfterConfirmation ==
    [][/\ StepOf(DeleteOps) =>
             /\ deleteConfirm # 0
             /\ call'.id = deleteConfirm
             /\ deleteConfirm' = 0
       /\ CleanStepOf(DeleteOps) =>
             \E i \in 1..Len(tasks) :
                /\ tasks[i].id = deleteConfirm
                /\ tasks' = dropAt(tasks, i)
       /\ (DialogCloses /\ ops' = ops) => tasks' = tasks]_vars

\* the fields the task form edits, and the stamp of the edit
EditedFields == {"title", "description", "priority", "dueDate", "updatedAt"}

changedAt(before, after) ==
    {i \in 1..Len(before) : after[i] # before[i]}

\* C28: an edit submitted through the task modal of the React app, when
\* its delayed UPDATE is dispatched (and the storage write does not
\* throw), keeps the number and the order of the records, changes no
\* record but the edited task, and of that task only title, description,
\* priority, dueDate and updatedAt: status and completedAt stay as they
\* are at that moment, and a task deleted in the meantime is not put back.
C28_StaleEditTouchesOnlyFormFields ==
    [][CleanStepOf({"UPDATE_TASK"}) =>
          /\ Len(tasks') = Len(tasks)
          /\ Cardinality(changedAt(tasks, tasks')) <= 1
          /\ \A i \in changedAt(tasks, tasks') :
                /\ tasks[i].id = submitting.taskToEdit.id
                /\ \A f \in Fields \ EditedFields :
                      tasks'[i][f] = tasks[i][f]]_vars

\* the timers a step has run or cancelled
goneTimers == {t \in timers : \A u \in timers' : u.handle # t.handle}

\* C29: the search of the vanilla page is debounced.  The search term
\* changes only when a timer runs; the timer that runs is the one of the
\* latest input event and its 300 ms have passed, so an input event
\* followed by another within 300 ms never sets the term; at most one timer
\* is set at any time; and after the last input event the search term
\* eventually is, and stays, the trimmed text of the search box, with no
\* timer left.
C29_SearchDebounced ==
    /\ [][/\ filters'.searchTerm # filters.searchTerm
             => (searchBox' = searchBox /\ goneTimers # {})
          /\ (searchBox' = searchBox /\ goneTimers # {})
             => /\ \A t \in goneTimers :
                      t.handle = searchTimeout /\ t.left = 0
                /\ filters'.searchTerm = text(trim(chars(searchBox)))]_vars
    /\ [](Cardinality(timers) <= 1)
    /\ <>[](/\ timers = {}
            /\ filters.searchTerm = text(trim(chars(searchBox))))

\* C29: a second input event has come before the timer of the first ran:
\* that timer is gone, the search term is still the initial one, and the
\* only timer set is the one of the second event
C29_Witness ==
    /\ searchTimeout = 2
    /\ searchBox = " api "
    /\ filters.searchTerm = ""
    /\ timers = {[handle |-> 2, left |-> SearchDelay]}

\* the filters that sequences of clicks on the filter lists lead to from
\* the filters of F
RECURSIVE afterClicks(_)
afterClicks(F) ==
    LET G == F \cup UNION {afterOneClick(f) : f \in F}
    IN  IF G = F THEN F ELSE afterClicks(G)

\* C30: in every state of the vanilla page there is a sequence of clicks on
\* the filter lists after which both the status filter and the priority
\* filter are 'all' again.
C30_FiltersCanBeReset ==
    Vanilla =>
       \E f \in afterClicks({filters}) :
          f.status = "all" /\ f.priority = "all"

====
